---- MODULE Spec2Model ----
(***************************************************************************)
(* Model of the GeoSpy front end (src/index.js): the image-location        *)
(* pipeline handleFileSelect -> identifyLocation -> renderResults, the     *)
(* hint adapter Vision, resetApp, and the preference input, as the event   *)
(* handlers and await continuations the browser runs one at a time        *)
(* (Spec, FairSpec); of runLocalObjectAnalysis of the same file, which     *)
(* nothing calls, run on its own (SpecLocal); and of the /search.json      *)
(* handlers of api/index.js and server.js (SpecRelay).                     *)
(*                                                                         *)
(* Numbers: latitude and longitude are whole degrees, confidence is in     *)
(* hundredths (0.3 is 30, 0.8 is 80).                                      *)
(***************************************************************************)
EXTENDS Integers, Sequences, FiniteSets, TLC

\* ------------------------------------------------------------------ bounds

\* Pipelines that may overlap: files selected one after the other before
\* every pipeline running has ended.
MaxSubs == 2

Subs == 1..MaxSubs

\* ------------------------------------------------------- program constants

Engine1Label == "Gemini 3 Flash"
Engine2Label == "Gemini 2.5 Flash"
LocalLabel == "Fallback: Local MobileNet + OCR"
LowConfidenceGate == 0
RadiusNoPreference == 1000
RadiusPreference == 500
CertaintyOffset == 10
AnalyzingText == "Analyzing image location..."
VeryLowText == "Very Low confidence"
AllFailedText == "All Scans Failed, Location Not Found"

\* Values the user can type into the preference input.
Preferences == {"", "coastal"}

\* --------------------------------------------------------- JSON objects

\* A parsed JSON object is a function from the property names it has to
\* their values; a missing property is a name outside its DOMAIN.
Has(o, f) == f \in DOMAIN o

Without(o, f) == [g \in DOMAIN o \ {f} |-> o[g]]

With(o, f, v) == [g \in DOMAIN o \cup {f} |-> IF g = f THEN v ELSE o[g]]

\* JavaScript truthiness of a numeric property: undefined and 0 are falsy.
Truthy(o, f) == Has(o, f) /\ o[f] # 0

\* isNaN(o.f) for a property that is a number when present.
IsNaN(o, f) == ~Has(o, f)

\* A response that follows GEMINI_RESPONSE_SCHEMA.
WellFormed == [city |-> "Paris", lat |-> 48, lng |-> 2, confidence |-> 80]

\* The same response with one property missing, zero, out of range, low
\* (0.2, 0.05), negative, or with a source of the engine's own.
Deviate(o) ==
    { Without(o, "lat"), With(o, "lat", 0), With(o, "lat", 200),
      Without(o, "lng"), With(o, "lng", 0),
      Without(o, "confidence"), With(o, "confidence", 20),
      With(o, "confidence", 5),
      With(o, "confidence", -10),
      With(o, "source", "Spoofed") }

\* What ai.models.generateContent followed by JSON.parse can produce:
\* an exception, or a parsed object.
EngineOutcomes ==
    { [threw |-> TRUE, parsed |-> WellFormed] }
    \cup { [threw |-> FALSE, parsed |-> o] : o \in {WellFormed} \cup Deviate(WellFormed) }

\* -------------------------------------------------------------- the relay

\* The body of the relay's answer to /search.json, as Vision reads it:
\* ai_overview (with or without references) and visual_matches may each
\* be there or not.
SerpBodies ==
    LET base == [search_metadata |-> "Success"]
        overviews == { [page_token |-> "tok"],
                       [page_token |-> "tok",
                        references |-> << [snippet |-> "old town"] >>] }
        matches == << [title |-> "Eiffel Tower"], [title |-> "Paris"] >>
        withOverview == {base} \cup { With(base, "ai_overview", a) : a \in overviews }
    IN  withOverview \cup { With(b, "visual_matches", matches) : b \in withOverview }

\* fetch + json of the relay: rejected, or a body.
SerpOutcomes ==
    { [threw |-> TRUE, body |-> [search_metadata |-> "Success"]] }
    \cup { [threw |-> FALSE, body |-> b] : b \in SerpBodies }

\* Array.prototype.join(", ") over strings.
RECURSIVE Join(_)
Join(s) ==
    IF Len(s) = 0 THEN ""
    ELSE IF Len(s) = 1 THEN s[1]
    ELSE s[1] \o ", " \o Join(Tail(s))

Titles(items) == [i \in 1..Len(items) |-> items[i].title]

Snippets(items) == [i \in 1..Len(items) |-> items[i].snippet]

\* Response.ai_overview?.references is truthy.
HasReferences(body) ==
    Has(body, "ai_overview") /\ Has(body.ai_overview, "references")

\* The tail of Vision with the test turned round: the titles whenever
\* there are visual matches.
VisionOutputTitlesFirst(outcome) ==
    IF outcome.threw THEN [threw |-> TRUE, output |-> ""]
    ELSE IF Has(outcome.body, "visual_matches")
    THEN [threw |-> FALSE,
          output |-> Join(Titles(outcome.body.visual_matches))]
    ELSE IF HasReferences(outcome.body)
    THEN [threw |-> FALSE,
          output |-> Join(Snippets(outcome.body.ai_overview.references))]
    ELSE [threw |-> TRUE, output |-> ""]

\* The tail of Vision: the hint string, or the TypeError of reading .map
\* of a missing visual_matches.
VisionOutput(outcome) ==
    IF outcome.threw THEN [threw |-> TRUE, output |-> ""]
    ELSE IF ~HasReferences(outcome.body)
         THEN IF Has(outcome.body, "visual_matches")
              THEN [threw |-> FALSE,
                    output |-> Join(Titles(outcome.body.visual_matches))]
              ELSE [threw |-> TRUE, output |-> ""]
         ELSE [threw |-> FALSE,
               output |-> Join(Snippets(outcome.body.ai_overview.references))]

\* ------------------------------------------------------- identifyLocation

\* if (parsed.lat && parsed.lng)
Accepts(parsed) == Truthy(parsed, "lat") /\ Truthy(parsed, "lng")

\* { source: label, ...parsed }: the spread comes last, so a source of
\* the engine's own survives.
StampUnderSpread(parsed, label) ==
    IF Has(parsed, "source") THEN parsed ELSE With(parsed, "source", label)

\* { ...parsed, source: label }: the later property wins.
Stamp(parsed, label) == With(parsed, "source", label)

\* What identifyLocation returns: a guess taken from an engine, or undefined.
Undefined == [defined |-> FALSE, value |-> WellFormed, engine |-> 0]

Guess(value, engine) == [defined |-> TRUE, value |-> value, engine |-> engine]

\* After the first try block has not returned. The second try block
\* builds its request from serpResponse, a const of the first try block:
\* the name is out of scope, reading it throws ReferenceError before
\* generateContent is called, and the catch swallows it. The local
\* analysis that followed is commented out, so the function ends and
\* returns undefined.
AfterPrimary == Undefined

\* The continuation of identifyLocation once engine 1 has answered.
IdentifyLocation(outcome) ==
    IF ~outcome.threw /\ Accepts(outcome.parsed)
    THEN Guess(Stamp(outcome.parsed, Engine1Label), 1)
    ELSE AfterPrimary

\* ---------------------------------------------------------- renderResults

\* data.confidence < 0 (a comparison with undefined is false).
LowConfidence(data) ==
    Has(data, "confidence") /\ data.confidence < LowConfidenceGate

\* nodes.prefer.value == "" picks the radius of the circle.
Radius(preference) ==
    IF preference = "" THEN RadiusNoPreference ELSE RadiusPreference

\* Math.round((data.confidence * 100) - 10), NaN without a confidence.
Certainty(data) ==
    IF Has(data, "confidence")
    THEN [nan |-> FALSE, value |-> data.confidence - CertaintyOffset]
    ELSE [nan |-> TRUE, value |-> 0]

NoCertainty == [nan |-> TRUE, value |-> 0]

Marker(lat, lng) == [kind |-> "marker", lat |-> lat, lng |-> lng]

Circle(lat, lng, radius) ==
    [kind |-> "circle", lat |-> lat, lng |-> lng, radius |-> radius]

\* The layers renderResults adds for an accepted guess.
NewLayers(data, preference) ==
    IF ~IsNaN(data, "lat") /\ ~IsNaN(data, "lng")
    THEN << Marker(data.lat, data.lng),
            Circle(data.lat, data.lng, Radius(preference)) >>
    ELSE << >>

Range(s) == { s[i] : i \in 1..Len(s) }

\* The forEach with removeLayer left out: the map keeps what it had.
RemoveLayersSkipped(onMap, tracked) == onMap

\* state.markers.forEach(m => state.map.removeLayer(m)): what is left on
\* the map.
RemoveLayers(onMap, tracked) == onMap \ Range(tracked)

\* renderResults with a guard `if (!data) return` ahead of its body.
RenderingGuarded(result) ==
    IF ~result.defined THEN "none"
    ELSE IF LowConfidence(result.value) THEN "lowconf"
    ELSE "shown"

\* Which way renderResults goes: reading .confidence of undefined throws,
\* else the low-confidence branch or the display branch.
Rendering(result) ==
    IF ~result.defined THEN "threw"
    ELSE IF LowConfidence(result.value) THEN "lowconf"
    ELSE "shown"

\* ------------------------------------------------- runLocalObjectAnalysis

\* How many predictions model.classify returns, and how many words the
\* recognised text has.
MaxLabels == 2

MaxWords == 2

\* Class names of the classifier, and words Tesseract may read off the
\* image: one capitalised, one a dataset key that is also a class name,
\* one spelling a name every object inherits, one short, one of digits.
Labels == {"temple", "street sign"}

Words == {"Hanoi", "temple", "constructor", "rue", "1889"}

SeqsUpTo(S, n) == UNION { [1..k -> S] : k \in 0..n }

\* String.prototype.toLowerCase on the words above.
ToLowerCase(w) == IF w = "Hanoi" THEN "hanoi" ELSE w

\* /^[a-z]+$/.test(w) on the lower-cased words above.
IsLetters(w) == w # "1889"

\* w.length > 3
MinWordLength == 3

\* predictions.map(p => (p.className || p.class).toLowerCase())
Objects(predictions) ==
    [i \in 1..Len(predictions) |-> ToLowerCase(predictions[i])]

\* ocrText.toLowerCase().split(/[\s,\.]+/).filter(...), the text given as
\* the words the split yields.
OcrWords(ocrText) ==
    SelectSeq([i \in 1..Len(ocrText) |-> ToLowerCase(ocrText[i])],
              LAMBDA w : Len(w) > MinWordLength /\ IsLetters(w))

\* [...new Set(s)]: the first occurrence of each element, in order.
RECURSIVE Unique(_)
Unique(s) ==
    IF s = << >> THEN << >>
    ELSE LET r == Unique(SubSeq(s, 1, Len(s) - 1))
             x == s[Len(s)]
         IN  IF \E i \in 1..Len(r) : r[i] = x THEN r ELSE Append(r, x)

\* [...new Set([...objects, ...ocrWords])]
UniqueTerms(objects, ocrWords) == Unique(objects \o ocrWords)

\* The default result: 48.8566 and 2.3522 in whole degrees, 0.2 in
\* hundredths.
DefaultLat == 48

DefaultLng == 2

DefaultConfidence == 20

LocalDefault ==
    [ source |-> LocalLabel, lat |-> DefaultLat, lng |-> DefaultLng,
      city |-> "Error Location", country |-> "Unknown",
      confidence |-> DefaultConfidence,
      reasoning |-> "Local analysis could not match features to the database." ]

\* dataset.json: entries under some of the keys.
Entries ==
    [ hanoi  |-> [ lat |-> 21, lng |-> 105, city |-> "Hanoi",
                   country |-> "Vietnam", reasoning |-> "Old quarter." ],
      temple |-> [ lat |-> 13, lng |-> 103, city |-> "Siem Reap",
                   country |-> "Cambodia", reasoning |-> "Khmer temple." ] ]

Datasets == { [k \in K |-> Entries[k]] : K \in SUBSET DOMAIN Entries }

\* fetch('./dataset.json') and response.json(): the fetch rejects, the
\* response is not OK, the body is not JSON, the body is JSON null, or
\* the body is a dataset.
DatasetOutcomes ==
    { [kind |-> k, dataset |-> << >>] :
          k \in {"rejected", "notOk", "malformed", "null"} }
    \cup { [kind |-> "object", dataset |-> d] : d \in Datasets }

\* What every object parsed from JSON inherits from Object.prototype
\* under a name a lower-cased word of letters can spell.
ObjectPrototype == [constructor |-> [name |-> "Object"]]

\* dataset[term]: an own property, else an inherited one, else undefined.
Get(dataset, term) ==
    IF term \in DOMAIN dataset
    THEN [truthy |-> TRUE, value |-> dataset[term]]
    ELSE IF term \in DOMAIN ObjectPrototype
    THEN [truthy |-> TRUE, value |-> ObjectPrototype[term]]
    ELSE [truthy |-> FALSE, value |-> [name |-> "undefined"]]

\* uniqueTerms.find(term => dataset[term]): the index of the first term
\* with a truthy dataset[term], 0 for undefined.
Find(terms, dataset) ==
    LET hits == { i \in 1..Len(terms) : Get(dataset, terms[i]).truthy }
    IN  IF hits = {} THEN 0 ELSE CHOOSE i \in hits : \A j \in hits : i <= j

\* isOcrMatch read off the first recognised word alone.
IsOcrMatchFirstWord(ocrWords, matchedKey) ==
    Len(ocrWords) > 0 /\ ocrWords[1] = matchedKey

\* ocrWords.includes(matchedKey)
IsOcrMatch(ocrWords, matchedKey) ==
    \E i \in 1..Len(ocrWords) : ocrWords[i] = matchedKey

\* isOcrMatch ? 0.7 : 0.4, in hundredths.
OcrConfidence == 70

ObjectConfidence == 40

\* result.f = match.f, undefined when match has no f.
Assign(result, f, match) ==
    IF Has(match, f) THEN With(result, f, match[f]) ELSE Without(result, f)

\* The body of `if (matchedKey && dataset[matchedKey])`.
Matched(matchedKey, match, isOcrMatch) ==
    LET located == Assign(Assign(Assign(Assign(LocalDefault,
                       "lat", match), "lng", match), "city", match),
                       "country", match)
        scored == With(located, "confidence",
                       IF isOcrMatch THEN OcrConfidence ELSE ObjectConfidence)
    IN  With(scored, "reasoning",
             "Local AI identified '" \o matchedKey \o "' via "
             \o (IF isOcrMatch THEN "Text Analysis" ELSE "Visual Recognition")
             \o ". "
             \o (IF Has(match, "reasoning") THEN match.reasoning ELSE "undefined"))

\* The try block around the dataset and the return: the key matched ("" for
\* none) and the result returned. Reading a property of null throws inside
\* the try, before result is touched.
LocalResult(objects, ocrWords, outcome) ==
    IF outcome.kind # "object"
    THEN [matchedKey |-> "", result |-> LocalDefault]
    ELSE LET uniqueTerms == UniqueTerms(objects, ocrWords)
             i == Find(uniqueTerms, outcome.dataset)
         IN  IF i = 0
             THEN [matchedKey |-> "", result |-> LocalDefault]
             ELSE [matchedKey |-> uniqueTerms[i],
                   result |-> Matched(uniqueTerms[i],
                                      Get(outcome.dataset, uniqueTerms[i]).value,
                                      IsOcrMatch(ocrWords, uniqueTerms[i]))]

\* ------------------------------------------------- the relay, server side

\* The two applications that answer /search.json: the handler of
\* api/index.js (lines 35-71) and the handler of server.js.
Apps == {"api/index.js", "server.js"}

Urls == {"https://i.ibb.co/a.jpg", "https://i.ibb.co/b.jpg"}

Tokens == {"tokA", "tokB"}

\* What the google_lens search answers: visual_matches or not, ai_overview
\* or not, the ai_overview with a page_token or without.
LensJsons ==
    LET base == [search_metadata |-> "Success"]
        overviews == { [error |-> "none"] }
                     \cup { [page_token |-> t] : t \in Tokens }
        withOverview == {base} \cup { With(base, "ai_overview", a) : a \in overviews }
    IN  withOverview
        \cup { With(b, "visual_matches", << [title |-> "Eiffel Tower"] >>) :
                   b \in withOverview }

\* What the google_ai_overview search answers: an ai_overview with
\* references, or none.
OverviewJsons ==
    { [search_metadata |-> "Success"],
      [search_metadata |-> "Success",
       ai_overview |-> [references |-> << [snippet |-> "old town"] >>]] }

\* getJson settles: the callback is called with the JSON, or the promise
\* rejects and the callback is never called.
LensOutcomes ==
    { [ok |-> FALSE, json |-> [search_metadata |-> "Error"]] }
    \cup { [ok |-> TRUE, json |-> j] : j \in LensJsons }

OverviewOutcomes ==
    { [ok |-> FALSE, json |-> [search_metadata |-> "Error"]] }
    \cup { [ok |-> TRUE, json |-> j] : j \in OverviewJsons }

\* const token = lensJson.ai_overview?.page_token; if (token)
HasToken(lensJson) ==
    Has(lensJson, "ai_overview") /\ Has(lensJson.ai_overview, "page_token")

\* { ...lensJson, ai_overview: aiResult.ai_overview } as res.json sends
\* it: a property that is undefined is left out.
Merged(lensJson, aiResult) ==
    IF Has(aiResult, "ai_overview")
    THEN With(lensJson, "ai_overview", aiResult.ai_overview)
    ELSE Without(lensJson, "ai_overview")

\* No request at the relay.
NoRelay ==
    [ pc |-> "none", app |-> "server.js", url |-> "", preference |-> "",
      calls |-> << >>, lensJson |-> [search_metadata |-> "none"],
      responses |-> << >> ]

\* ------------------------------------------------------------------ state

VARIABLES
    prefer,          \* nodes.prefer.value
    markers,         \* state.markers
    mapLayers,       \* the markers and circles added to state.map
    view,            \* "empty" (emptyState shown) or "result" (resultView shown)
    statusMessage,   \* nodes.statusMessage: its text and its hidden class
    resultsContent,  \* "hidden" or "shown"
    engineBadge,     \* nodes.engineBadge.textContent
    pc,              \* per pipeline: the await it is suspended at, "ended"
                     \* while a pipeline it overlapped with is running
    asked,           \* per pipeline: whom it has asked so far, and the
                     \* preference it sent along
    ev,              \* what the step just taken did
    local,           \* a call of runLocalObjectAnalysis
    relay            \* a /search.json request at the relay

\* The variables of the front-end pipeline.
pipeline == << prefer, markers, mapLayers, view, statusMessage, resultsContent,
               engineBadge, pc, asked, ev >>

vars == << pipeline, local, relay >>

\* No call of runLocalObjectAnalysis.
NoLocal ==
    [ pc |-> "none", ocrText |-> << >>, predictions |-> << >>,
      fetched |-> "none", dataset |-> << >>,
      matchedKey |-> "", result |-> LocalDefault ]

\* The record of a step; a step that ends a pipeline fills in the rest.
Event(op, s) ==
    [ op |-> op, sub |-> s, ended |-> FALSE, asked |-> << >>,
      vision |-> "none", body |-> [search_metadata |-> "Success"], hints |-> "",
      engine1 |-> "none", parsed |-> WellFormed,
      result |-> Undefined, rendering |-> "none", certainty |-> NoCertainty,
      superseded |-> FALSE ]

Init ==
    /\ prefer = ""
    /\ markers = << >>
    /\ mapLayers = {}
    /\ view = "empty"
    /\ statusMessage = [text |-> "", hidden |-> TRUE]
    /\ resultsContent = "hidden"
    /\ engineBadge = ""
    /\ pc = [s \in Subs |-> "idle"]
    /\ asked = [s \in Subs |-> << >>]
    /\ ev = Event("init", 0)
    /\ local = NoLocal
    /\ relay = NoRelay

\* ------------------------------------------------- renderResults and catch

\* The try/catch of reader.onload around renderResults(result), run in the
\* continuation that receives identifyLocation's result.
RenderOrCatch(result) ==
    LET how == Rendering(result)
        data == result.value
        layers == NewLayers(data, prefer)
    IN  /\ statusMessage' =
              IF how = "threw"
              THEN [statusMessage EXCEPT !.text = AllFailedText]
              ELSE IF how = "lowconf"
              THEN [statusMessage EXCEPT !.text = VeryLowText]
              ELSE [statusMessage EXCEPT !.hidden = TRUE]
        /\ resultsContent' = IF how = "shown" THEN "shown" ELSE resultsContent
        /\ engineBadge' =
              IF how = "shown" THEN "Active Engine: " \o data.source
              ELSE engineBadge
        /\ markers' = IF how = "shown" THEN layers ELSE markers
        /\ mapLayers' =
              IF how = "shown"
              THEN RemoveLayers(mapLayers, markers) \cup Range(layers)
              ELSE mapLayers
        /\ UNCHANGED << prefer, view >>

\* A pipeline ends: identifyLocation has returned `result`.
Finish(s, op, vision, engine1, parsed, result) ==
    /\ pc' = IF \A r \in Subs \ {s} : pc[r] \in {"idle", "ended"}
             THEN [r \in Subs |-> "idle"]
             ELSE [pc EXCEPT ![s] = "ended"]
    /\ RenderOrCatch(result)
    /\ asked' = [asked EXCEPT ![s] = << >>]
    /\ UNCHANGED << local, relay >>
    /\ ev' = [ Event(op, s) EXCEPT
                 !.ended = TRUE, !.asked = asked[s], !.vision = vision,
                 !.superseded = (\E r \in Subs : r > s /\ pc[r] # "idle"),
                 !.engine1 = engine1, !.parsed = parsed, !.result = result,
                 !.rendering = Rendering(result),
                 !.certainty = IF Rendering(result) = "shown"
                               THEN Certainty(result.value) ELSE NoCertainty ]

\* ---------------------------------------------------------------- actions

\* The file input changes with a file chosen: the reader starts. The new
\* pipeline takes the first free slot, and the slot of a pipeline that has
\* ended is free again once no pipeline is running: the slots of the
\* pipelines that overlap are in the order in which their files were
\* selected.
handleFileSelect(s) ==
    /\ pc[s] = "idle"
    /\ \A r \in Subs : r < s => pc[r] # "idle"
    /\ pc' = [pc EXCEPT ![s] = "reading"]
    /\ ev' = Event("handleFileSelect", s)
    /\ UNCHANGED << prefer, markers, mapLayers, view, statusMessage,
                    resultsContent, engineBadge, asked, local, relay >>

\* reader.onload: the loading state, then identifyLocation runs into
\* Vision, which reads the preference and starts the upload.
readerOnload(s) ==
    /\ pc[s] = "reading"
    /\ pc' = [pc EXCEPT ![s] = "upload"]
    /\ view' = "result"
    /\ resultsContent' = "hidden"
    /\ statusMessage' = [text |-> AnalyzingText, hidden |-> FALSE]
    /\ asked' = [asked EXCEPT ![s] =
                    << [to |-> "Vision", preference |-> prefer] >>]
    /\ ev' = Event("readerOnload", s)
    /\ UNCHANGED << prefer, markers, mapLayers, engineBadge, local, relay >>

\* The ImgBB upload settles. A rejected fetch or a body without data.url
\* throws out of Vision into the catch of the first try block.
uploadSettles(s, ok) ==
    /\ pc[s] = "upload"
    /\ IF ok
       THEN /\ pc' = [pc EXCEPT ![s] = "search"]
            /\ ev' = Event("uploadSettles", s)
            /\ UNCHANGED << prefer, markers, mapLayers, view, statusMessage,
                            resultsContent, engineBadge, asked,
                            local, relay >>
       ELSE Finish(s, "uploadSettles", "threw", "none", WellFormed, AfterPrimary)

\* The relay answers. With hints, identifyLocation reads the preference
\* again and sends engine 1 the image, that preference and the hints
\* (ev.hints; nothing reads serpResponse after this request).
searchSettles(s, outcome) ==
    /\ pc[s] = "search"
    /\ LET v == VisionOutput(outcome)
       IN  IF v.threw
           THEN Finish(s, "searchSettles", "threw", "none", WellFormed, AfterPrimary)
           ELSE /\ pc' = [pc EXCEPT ![s] = "engine1"]
                /\ asked' = [asked EXCEPT ![s] = Append(@,
                       [to |-> Engine1Label, preference |-> prefer])]
                /\ ev' = [Event("searchSettles", s) EXCEPT
                            !.vision = "ok", !.body = outcome.body,
                            !.hints = v.output, !.asked = asked'[s]]
                /\ UNCHANGED << prefer, markers, mapLayers, view, statusMessage,
                                resultsContent, engineBadge, local, relay >>

\* Engine 1 answers: the rest of identifyLocation and the rendering.
engine1Settles(s, outcome) ==
    /\ pc[s] = "engine1"
    /\ Finish(s, "engine1Settles", "ok",
              IF outcome.threw THEN "threw" ELSE "json",
              outcome.parsed, IdentifyLocation(outcome))

\* The clear button.
resetApp ==
    /\ view' = "empty"
    /\ prefer' = ""
    /\ mapLayers' = RemoveLayers(mapLayers, markers)
    /\ markers' = << >>
    /\ ev' = Event("resetApp", 0)
    /\ UNCHANGED << statusMessage, resultsContent, engineBadge, pc, asked,
                    local, relay >>

\* The user edits the preference input.
inputPreference(p) ==
    /\ p # prefer
    /\ prefer' = p
    /\ ev' = Event("inputPreference", 0)
    /\ UNCHANGED << markers, mapLayers, view, statusMessage, resultsContent,
                    engineBadge, pc, asked, local, relay >>

Next ==
    \/ \E s \in Subs : handleFileSelect(s)
    \/ \E s \in Subs : readerOnload(s)
    \/ \E s \in Subs, ok \in BOOLEAN : uploadSettles(s, ok)
    \/ \E s \in Subs, o \in SerpOutcomes : searchSettles(s, o)
    \/ \E s \in Subs, o \in EngineOutcomes : engine1Settles(s, o)
    \/ resetApp
    \/ \E p \in Preferences : inputPreference(p)

Spec == Init /\ [][Next]_vars

\* Spec with every call that is pending settled in the end: what pipeline
\* s waits for (the reader's onload, the upload, the search, the engine)
\* comes. A pipeline waits for one of them at a time.
Settles(s) ==
    \/ readerOnload(s)
    \/ \E ok \in BOOLEAN : uploadSettles(s, ok)
    \/ \E o \in SerpOutcomes : searchSettles(s, o)
    \/ \E o \in EngineOutcomes : engine1Settles(s, o)

FairSpec == Spec /\ \A s \in Subs : WF_vars(Settles(s))

\* ------------------------------------------- runLocalObjectAnalysis, run

\* runLocalObjectAnalysis is called: the models load and the text is read.
runLocalObjectAnalysis ==
    /\ local.pc = "none"
    /\ local' = [local EXCEPT !.pc = "models"]
    /\ UNCHANGED << pipeline, relay >>

\* Promise.all([mobilenet.load(), Tesseract.recognize(...)]) settles: with
\* the text read, or with a rejection that leaves the function.
modelsSettle(ok, ocrText) ==
    /\ local.pc = "models"
    /\ local' = IF ok THEN [local EXCEPT !.pc = "classify", !.ocrText = ocrText]
                ELSE [local EXCEPT !.pc = "threw"]
    /\ UNCHANGED << pipeline, relay >>

\* model.classify settles; the terms and the default result are built and
\* the dataset is asked for.
classifySettles(ok, predictions) ==
    /\ local.pc = "classify"
    /\ local' = IF ok THEN [local EXCEPT !.pc = "fetch", !.predictions = predictions]
                ELSE [local EXCEPT !.pc = "threw"]
    /\ UNCHANGED << pipeline, relay >>

\* fetch and response.json() settle; the function returns its result.
datasetSettles(outcome) ==
    /\ local.pc = "fetch"
    /\ LET r == LocalResult(Objects(local.predictions),
                            OcrWords(local.ocrText), outcome)
       IN  local' = [local EXCEPT !.pc = "returned",
                                  !.fetched = outcome.kind,
                                  !.dataset = outcome.dataset,
                                  !.matchedKey = r.matchedKey,
                                  !.result = r.result]
    /\ UNCHANGED << pipeline, relay >>

NextLocal ==
    \/ runLocalObjectAnalysis
    \/ \E ok \in BOOLEAN, t \in SeqsUpTo(Words, MaxWords) : modelsSettle(ok, t)
    \/ \E ok \in BOOLEAN, p \in SeqsUpTo(Labels, MaxLabels) : classifySettles(ok, p)
    \/ \E o \in DatasetOutcomes : datasetSettles(o)

SpecLocal == Init /\ [][NextLocal]_vars

\* -------------------------------------------------------- the relay, run

\* GET /search.json?url=&preference= arrives at one of the applications:
\* the handler calls getJson for google_lens and returns.
searchRequest(app, url, preference) ==
    /\ relay.pc = "none"
    /\ relay' = [relay EXCEPT
                   !.pc = "lens", !.app = app, !.url = url,
                   !.preference = preference,
                   !.calls = << [engine |-> "google_lens", url |-> url,
                                 preference |-> preference, page_token |-> ""] >>]
    /\ UNCHANGED << pipeline, local >>

\* The google_lens call settles. In api/index.js the callback asks for the
\* overview when the answer has a page token and else sends the answer; in
\* server.js it sends the answer. A rejection reaches no handler: the call
\* is not awaited, so the catch of line 68 is not around it.
lensSettles(outcome) ==
    /\ relay.pc = "lens"
    /\ relay' =
          IF ~outcome.ok
          THEN [relay EXCEPT !.pc = "rejected"]
          ELSE IF relay.app = "api/index.js" /\ HasToken(outcome.json)
          THEN [relay EXCEPT
                  !.pc = "overview", !.lensJson = outcome.json,
                  !.calls = Append(@, [engine |-> "google_ai_overview",
                                       url |-> "", preference |-> "",
                                       page_token |-> outcome.json.ai_overview.page_token])]
          ELSE [relay EXCEPT
                  !.pc = "responded", !.lensJson = outcome.json,
                  !.responses = Append(@, [status |-> 200, body |-> outcome.json])]
    /\ UNCHANGED << pipeline, local >>

\* The google_ai_overview call settles: the merged result is sent.
overviewSettles(outcome) ==
    /\ relay.pc = "overview"
    /\ relay' =
          IF ~outcome.ok
          THEN [relay EXCEPT !.pc = "rejected"]
          ELSE [relay EXCEPT
                  !.pc = "responded",
                  !.responses = Append(@, [status |-> 200,
                                           body |-> Merged(relay.lensJson, outcome.json)])]
    /\ UNCHANGED << pipeline, local >>

NextRelay ==
    \/ \E a \in Apps, u \in Urls, p \in Preferences : searchRequest(a, u, p)
    \/ \E o \in LensOutcomes : lensSettles(o)
    \/ \E o \in OverviewOutcomes : overviewSettles(o)

SpecRelay == Init /\ [][NextRelay]_vars

\* ----------------------------------------------------------------- claims

\* The specification's structural validity of a guess: latitude and
\* longitude present and in range, confidence present.
StructurallyValid(g) ==
    /\ Has(g, "lat") /\ g.lat >= -90 /\ g.lat <= 90
    /\ Has(g, "lng") /\ g.lng >= -180 /\ g.lng <= 180
    /\ Has(g, "confidence")

\* The pipeline that just ended had sent a request to `whom`.
Invoked(whom) == \E i \in DOMAIN ev.asked : ev.asked[i].to = whom

\* The labels by which the orchestrator names its remote engines.
EngineLabels == << Engine1Label, Engine2Label >>

\* The confidence below which the specification places no marker (0.3).
SpecConfidenceGate == 30

\* C1: whenever engine 1 answers with a structurally valid guess (latitude
\* 0 or longitude 0 included), identifyLocation returns that guess, and
\* neither engine 2 nor the local engine was asked.
C1_EnginePriority ==
    (ev.ended /\ ev.engine1 = "json" /\ StructurallyValid(ev.parsed))
        => /\ ev.result.defined
           /\ ev.result.engine = 1
           /\ Without(ev.result.value, "source") = Without(ev.parsed, "source")
           /\ ~Invoked(Engine2Label)
           /\ ~Invoked(LocalLabel)

\* C2: whenever engine 1 throws or answers without lat or without lng, the
\* pipeline goes on to send engine 2 its request.
C2_NextEngineInvoked ==
    (ev.ended /\ ( \/ ev.engine1 = "threw"
                   \/ /\ ev.engine1 = "json"
                      /\ (~Has(ev.parsed, "lat") \/ ~Has(ev.parsed, "lng")) ))
        => Invoked(Engine2Label)

\* C3: whenever the remote engines have failed, the local engine is asked
\* and identifyLocation returns its guess, tagged as the local fallback.
C3_LocalFallback ==
    (ev.ended /\ ev.engine1 = "threw")
        => /\ Invoked(LocalLabel)
           /\ ev.result.defined
           /\ ev.result.value.source = LocalLabel

\* C4: a failure of the hint source never keeps the pipeline from asking
\* engine 1.
C4_HintsNeverBlock ==
    (ev.ended /\ ev.vision = "threw") => Invoked(Engine1Label)

\* C5: every guess identifyLocation returns is structurally valid.
C5_OnlyValidSelected ==
    (ev.ended /\ ev.result.defined) => StructurallyValid(ev.result.value)

\* C6: renderResults places no marker for a confidence below 0.3, and a
\* marker at (lat, lng) for a confidence of 0.3 or more.
C6_ConfidenceGate ==
    (ev.ended /\ ev.result.defined /\ Has(ev.result.value, "confidence"))
        => LET g == ev.result.value
               placed == /\ ev.rendering = "shown"
                         /\ Len(markers) > 0
                         /\ markers[1] = Marker(g.lat, g.lng)
           IN  IF g.confidence < SpecConfidenceGate THEN ~placed ELSE placed

\* C7: the terminal failure message is shown only when the local engine
\* was asked (and raised).
C7_FailureOnlyAfterLocal ==
    (ev.ended /\ ev.rendering = "threw" /\ statusMessage.text = AllFailedText)
        => Invoked(LocalLabel)

\* C8: the circle drawn for a submission has radius 1000 when the
\* submission was made with an empty preference and 500 otherwise.
C8_RadiusOfSubmission ==
    (ev.ended /\ ev.rendering = "shown" /\ Len(markers) = 2)
        => markers[2].radius =
              (IF ev.asked[1].preference = "" THEN 1000 ELSE 500)

\* C9: every request of one submission carries the same preference.
C9_SamePreferenceForwarded ==
    \A i, j \in DOMAIN ev.asked :
        ev.asked[i].preference = ev.asked[j].preference

\* C10: the source of an accepted guess is the label of the engine whose
\* answer it was, whatever source the answer itself carried, and that is
\* the engine the badge names.
C10_SourceStamped ==
    (ev.ended /\ ev.result.defined)
        => /\ Has(ev.result.value, "source")
           /\ ev.result.value.source = EngineLabels[ev.result.engine]
           /\ ev.rendering = "shown" =>
                 engineBadge = "Active Engine: " \o EngineLabels[ev.result.engine]

\* An accepted answer that carried a source of its own.
C10_Witness ==
    /\ ev.ended /\ ev.result.defined /\ ev.rendering = "shown"
    /\ Has(ev.parsed, "source")
    /\ ev.parsed.source # EngineLabels[ev.result.engine]

\* The candidate terms of the call that has returned, in candidate order,
\* and the positions of those that are keys of the dataset fetched.
Candidates == UniqueTerms(Objects(local.predictions), OcrWords(local.ocrText))

KeyPositions ==
    { i \in 1..Len(Candidates) :
          local.fetched = "object" /\ Candidates[i] \in DOMAIN local.dataset }

\* C12: the match of the local engine is the first candidate term, in
\* candidate order, that is a key of the dataset, and the coordinates, city
\* and country returned are those of that key's entry; a term that is no
\* key is never the match.
C12_FirstDatasetKey ==
    local.pc = "returned" =>
        /\ local.matchedKey # "" => KeyPositions # {}
        /\ \A i \in KeyPositions :
              (\A j \in KeyPositions : i <= j) =>
                 /\ local.matchedKey = Candidates[i]
                 /\ \A f \in {"lat", "lng", "city", "country"} :
                       /\ Has(local.result, f)
                       /\ local.result[f] = local.dataset[Candidates[i]][f]

\* C13: when the local engine has matched a term, the confidence returned
\* is 0.7 if the term is one of the recognised words and 0.4 if it comes
\* from the classifier alone; a match carries no other confidence.
C13_MatchConfidence ==
    (local.pc = "returned" /\ local.matchedKey # "") =>
        /\ Has(local.result, "confidence")
        /\ local.result.confidence =
              IF \E i \in 1..Len(OcrWords(local.ocrText)) :
                     OcrWords(local.ocrText)[i] = local.matchedKey
              THEN OcrConfidence ELSE ObjectConfidence

\* A match on a recognised word that had to be lower-cased, and none of
\* the class names is a key.
C13_Witness ==
    /\ local.pc = "returned" /\ local.matchedKey = "hanoi"
    /\ local.predictions # << >>
    /\ local.result.confidence = OcrConfidence

\* C14: whenever the dataset cannot be fetched or parsed, or no candidate
\* term is a key of it, the local engine returns the default guess: the
\* placeholder coordinates, confidence 0.2 and the could-not-match
\* reasoning, a structurally valid guess.
C14_DefaultOnDatasetFailure ==
    (local.pc = "returned" /\ KeyPositions = {}) =>
        /\ local.result = LocalDefault
        /\ StructurallyValid(local.result)

\* C15: a request the relay has answered began with the lens query; if the
\* lens answer carried an ai_overview page token, a second query, for the
\* overview under that token, was made and the response is the lens answer
\* with the ai_overview fetched; if it carried none, no second query was
\* made and the response is the lens answer alone.
C15_TwoStageProtocol ==
    relay.pc = "responded" =>
        /\ relay.calls[1].engine = "google_lens"
        /\ Len(relay.responses) = 1
        /\ HasToken(relay.lensJson) =>
              /\ Len(relay.calls) = 2
              /\ relay.calls[2].engine = "google_ai_overview"
              /\ relay.calls[2].page_token = relay.lensJson.ai_overview.page_token
              /\ Without(relay.responses[1].body, "ai_overview")
                    = Without(relay.lensJson, "ai_overview")
              /\ ~Has(relay.responses[1].body, "ai_overview")
                    \/ ~Has(relay.responses[1].body.ai_overview, "page_token")
        /\ ~HasToken(relay.lensJson) =>
              /\ Len(relay.calls) = 1
              /\ relay.responses[1].body = relay.lensJson

\* C16: the hint string Vision returns is the snippets of
\* ai_overview.references, joined, whenever the relay's answer has that
\* field, whatever else it has; the titles of visual_matches are used only
\* when it has no references.
C16_HintParsing ==
    (ev.op = "searchSettles" /\ ev.vision = "ok") =>
        /\ HasReferences(ev.body) =>
              ev.hints = Join(Snippets(ev.body.ai_overview.references))
        /\ ~HasReferences(ev.body) =>
              /\ Has(ev.body, "visual_matches")
              /\ ev.hints = Join(Titles(ev.body.visual_matches))

\* An answer with both references and visual matches has been parsed.
C16_Witness ==
    /\ ev.op = "searchSettles" /\ ev.vision = "ok"
    /\ HasReferences(ev.body) /\ Has(ev.body, "visual_matches")
    /\ ev.hints = "old town"

\* The submission of the pipeline that just ended has exactly one outcome:
\* renderResults displayed its guess or its low-confidence notice, or the
\* catch wrote the failure message.
OneOutcome ==
    LET rendered == ev.result.defined /\ ev.rendering \in {"shown", "lowconf"}
        failed == ev.rendering = "threw" /\ statusMessage.text = AllFailedText
    IN  (rendered \/ failed) /\ ~(rendered /\ failed)

\* C17: every submission, once the reader, the upload, the search and the
\* engine have each settled, ends with exactly one outcome: a rendered
\* guess or the failure message, never both and never neither. No
\* pipeline stays pending for ever (a pipeline leaves its slot only by
\* ending), and every end is one outcome.
C17_ExactlyOneOutcome ==
    /\ \A s \in Subs : []<>(pc[s] = "idle")
    /\ [](ev.ended => OneOutcome)

\* A submission has ended with the failure message.
C17_Witness ==
    /\ ev.ended /\ ev.rendering = "threw"
    /\ statusMessage.text = AllFailedText /\ ~statusMessage.hidden

\* C18: when the last running pipeline ends by displaying its guess, it is
\* the pipeline of the file selected last: what is displayed once
\* overlapping submissions have all finished is the result of the later one.
C18_LaterSubmissionDisplayed ==
    (ev.ended /\ ev.rendering = "shown" /\ \A s \in Subs : pc[s] = "idle")
        => ~ev.superseded

\* C19: when a recognised word and a different class name are both keys of
\* the dataset, the recognised word is the one matched and the confidence
\* returned is 0.7.
C19_OcrBeforeObjects ==
    LET objects == Objects(local.predictions)
        ocrWords == OcrWords(local.ocrText)
    IN  ( /\ local.pc = "returned" /\ local.fetched = "object"
          /\ \E i \in 1..Len(ocrWords), j \in 1..Len(objects) :
                /\ ocrWords[i] # objects[j]
                /\ ocrWords[i] \in DOMAIN local.dataset
                /\ objects[j] \in DOMAIN local.dataset )
        => /\ \E i \in 1..Len(ocrWords) : local.matchedKey = ocrWords[i]
           /\ local.result.confidence = OcrConfidence

\* C20: once a submission has ended as low-confidence or with the failure
\* message, no marker or circle of an earlier guess is left: neither in
\* state.markers nor on the map.
C20_NoStaleMarkers ==
    (ev.ended /\ ev.rendering \in {"lowconf", "threw"}) =>
        (markers = << >> /\ mapLayers = {})

\* C21: whatever renderResults and resetApp calls have run, state.markers
\* is empty or holds exactly one marker followed by one circle, and every
\* layer on the map is one of state.markers.
C21_MarkerBookkeeping ==
    /\ \/ markers = << >>
       \/ /\ Len(markers) = 2
          /\ markers[1].kind = "marker"
          /\ markers[2].kind = "circle"
    /\ mapLayers \subseteq Range(markers)

\* A guess has been displayed by a pipeline that a later one overlapped,
\* with a preference typed in: one marker and one circle of radius 500,
\* both on the map.
C21_Witness ==
    /\ ev.ended /\ ev.rendering = "shown" /\ ev.superseded
    /\ Len(markers) = 2 /\ markers[2].radius = RadiusPreference
    /\ mapLayers = Range(markers)

\* C22: after resetApp, for as long as no file is selected (and the user
\* types no preference), the empty state stays shown, no marker or circle
\* is on the map and the preference is empty; in particular the step that
\* follows resetApp, if it belongs to a pipeline started before the reset,
\* leaves all of that as resetApp put it.
C22_ResetIsFinal ==
    [][ ( /\ ev.op = "resetApp"
          /\ ev'.op \notin {"handleFileSelect", "inputPreference"} )
        => ( /\ view' = "empty"
             /\ markers' = << >>
             /\ mapLayers' = {}
             /\ prefer' = "" ) ]_vars

\* C23: the relay never sends two responses to a /search.json request, and
\* once nothing of the request is pending any more it has sent exactly
\* one: the 500 error if a call to the search provider failed.
C23_ExactlyOneResponse ==
    /\ Len(relay.responses) <= 1
    /\ relay.pc = "responded" => Len(relay.responses) = 1
    /\ relay.pc = "rejected" =>
          /\ Len(relay.responses) = 1
          /\ relay.responses[1].status = 500

\* C24: whenever renderResults displays the certainty of a guess whose
\* confidence lies in [0, 1], the percentage displayed, confidence * 100
\* - 10 rounded, lies in [0, 100].
C24_CertaintyInRange ==
    ( /\ ev.ended /\ ev.rendering = "shown"
      /\ Has(ev.result.value, "confidence")
      /\ ev.result.value.confidence \in 0..100 )
        => /\ ~ev.certainty.nan
           /\ ev.certainty.value \in 0..100

====
